---- MODULE Spec2Model ----
(***************************************************************************)
(* Model of the job-application driver of AI_Bot:                          *)
(*   src/main.py                         the sequential job loop of main() *)
(*   src/src/application/job_applier.py  JobApplier.apply, _setup_driver,  *)
(*                                       _apply_linkedin and the form      *)
(*                                       navigator                         *)
(*                                       _handle_linkedin_application_form *)
(*   src/src/utils/human_behavior.py     HumanBehavior: human_like_typing, *)
(*                                       human_like_click, scroll_page and *)
(*                                       read_page_behavior, each run as a *)
(*                                       program of its own (SpecType,     *)
(*                                       SpecClick, SpecScroll, SpecRead)  *)
(* The question filler of job_applier.py (628-818) is also run as a        *)
(* program of its own on one page (SpecQuestions).                         *)
(* The browser (Selenium driver, page, files on disk) is the environment:  *)
(* every call into it either succeeds or raises one of the exception       *)
(* classes the code distinguishes, chosen nondeterministically.            *)
(***************************************************************************)
EXTENDS Integers, Sequences, FiniteSets, TLC

\* ---- bounds of the model -------------------------------------------------
MaxJobs == 2          \* at most this many scraped job listings
MaxLimit == 2         \* max_applications_per_day ranges over 0..MaxLimit
MaxButtons == 2       \* at most this many <button> elements in a step
MaxSize == 5          \* the clicked element is 1..MaxSize pixels wide and high
MaxAmount == 120      \* scroll_page is called with amount in 0..MaxAmount
ManyCycles == 2       \* passes of the reading loop are counted up to this
MaxLen == 2           \* texts typed by human_like_typing have 0..MaxLen characters
MaxElems == 2         \* a page has 0..MaxElems radio groups, selects, text
                      \* inputs and textareas
MaxOptions == 3       \* a select has 0..MaxOptions options

\* ---- program constants ---------------------------------------------------
max_steps == 10       \* job_applier.py:393
FollowUpDays == 7     \* config.py:72
MinStep == 50         \* human_behavior.py:143, randint(50, 200)
MaxStep == 200

\* job['source'] values; "Glassdoor" stands for every source apply() has no
\* branch for (config.py:60-66 lists glassdoor and monster as job boards).
Sources == {"LinkedIn", "Indeed", "ZipRecruiter", "Glassdoor"}

\* The exception classes the handlers of job_applier.py tell apart
\* (job_applier.py:10-13); "Other" is any other subclass of Exception.
Exc == {"NoSuchElement", "Timeout", "Other"}

\* Exceptions of a call that locates or uses no element (driver.get,
\* execute_script, read_page_behavior): never NoSuchElementException.
PageExc == {"Timeout", "Other"}

\* The kinds of <button> the fallback search tells apart by their text
\* (job_applier.py:512): "next"/"continue", "submit"/"apply", anything else.
ButtonKinds == {"nextlike", "submitlike", "other"}

VARIABLES
  pc,                       \* position of the single thread of control
  \* main()
  scraped,                  \* len(job_listings) as the search returned it
  job_listings,             \* len(job_listings)
  max_applications,         \* config['JOB_SEARCH']['max_applications_per_day']
  follow_up_days,           \* config['APPLICATION']['follow_up_days']
  confirmation,             \* answer to the prompt, "" before it is asked
  i,                        \* loop index of enumerate(job_listings, 1)
  successful_applications,
  \* files on disk
  applications,             \* lines of data_folder/applications/applications.csv
  follow_ups,               \* lines of data_folder/follow_ups/follow_ups.csv
  jobs_file,                \* "none" | "written": data_folder/jobs_<time>.json
  \* JobApplier.apply
  job,                      \* the job dict and the file arguments of the call
  driver,                   \* "none" | "open" | "closed"
  success,
  ret,                      \* "none" | "True" | "False" | "raised"
  \* _handle_linkedin_application_form
  current_step,
  stepinfo,                 \* what the current iteration has found and clicked
  \* history of the current apply() call
  call,                     \* record of counters and flags, see NewCall
  \* history of the whole run
  open_sessions,            \* browsers launched and not quit
  apply_calls,              \* number of apply() calls made
  true_returns,             \* number of apply() calls that returned True
  \* HumanBehavior (human_behavior.py), run on its own
  sim                       \* the locals of the running simulator function

vars == << pc, scraped, job_listings, max_applications, follow_up_days,
           confirmation, i, successful_applications, applications, follow_ups,
           jobs_file, job, driver, success, ret, current_step, stepinfo, call,
           open_sessions, apply_calls, true_returns, sim >>

mainVars == << scraped, job_listings, max_applications, follow_up_days,
               confirmation, i, successful_applications >>
fileVars == << applications, follow_ups, jobs_file >>
runVars == << open_sessions, apply_calls, true_returns >>

NoJob == [source |-> "none", url |-> FALSE, sponsors |-> FALSE,
          resume |-> FALSE, cover |-> FALSE]

Jobs == [source : Sources, url : BOOLEAN, sponsors : BOOLEAN,
         resume : BOOLEAN, cover : BOOLEAN]

\* No simulator function is running on its own.
NoSim == [fn |-> "none"]

NoStep == [present |-> {},     \* controls found in this iteration
           clicked |-> {},     \* controls clicked in this iteration
           left |-> 0,         \* buttons the fallback loop has yet to visit
           fbClicks |-> 0,     \* buttons the fallback loop has clicked
           did |-> "none",     \* how the latest fill acted on the page:
                               \* "raw" send_keys | "simulator" | "none"
           skipped |-> FALSE]  \* a located contact field was not attempted
                               \* (kept until the search for Submit is over)

\* History of one apply() call, reset when the call starts.
NewCall == [launched |-> 0,          \* webdriver.Chrome() calls that succeeded
            quits |-> 0,             \* driver.quit() calls
            delayed |-> FALSE,       \* the quit was preceded by random_delay
            appMark |-> Len(applications),  \* file lengths at the call
            fuMark |-> Len(follow_ups),
            recTries |-> 0,          \* _record_application calls
            fuTries |-> 0,           \* _schedule_follow_up calls
            fuAfterRec |-> TRUE,     \* no follow-up attempt before the record's
            recOk |-> FALSE,         \* the record line was written
            fuOk |-> FALSE,          \* the follow-up line was written
            login |-> "none",        \* "ok" | "failed": _linkedin_login
            appliedSeen |-> FALSE,   \* the job page showed the 'Applied' button
            outcome |-> "none",      \* how the LinkedIn run ended
            iters |-> 0,             \* iterations of the stepping loop begun
            nextRun |-> 0,           \* k when every step so far was left by
                                     \* a click on Next (k clicks), else -1
            submitClicked |-> FALSE,
            submitStep |-> 0,        \* current_step when Submit was clicked
            wait |-> "none",         \* how the confirmation wait ended
            touched |-> FALSE,       \* the form was acted on: an upload, a
                                     \* call of the field fillers, or a click
                                     \* on Next/Review/Submit/a fallback button
            applyClicked |-> FALSE,  \* an Apply button was clicked
            submitLike |-> FALSE,    \* a fallback "submit"/"apply" button clicked
            escaped |-> "none",      \* function an exception propagated out of
            cause |-> "none"]        \* what raised the exception that ended
                                     \* the navigator: "page" | "field" |
                                     \* "click" | "wait"

Init ==
  /\ pc = "m_limit"
  /\ job_listings \in 1..MaxJobs           \* main.py:301 exits on an empty list
  /\ scraped = job_listings
  /\ max_applications \in 0..MaxLimit
  /\ follow_up_days \in {0, FollowUpDays}
  /\ confirmation = ""
  /\ i = 0
  /\ successful_applications = 0
  /\ applications = << >>
  /\ follow_ups = << >>
  /\ jobs_file = "none"
  /\ job = NoJob
  /\ driver = "none"
  /\ success = FALSE
  /\ ret = "none"
  /\ current_step = 0
  /\ stepinfo = NoStep
  /\ call = NewCall
  /\ open_sessions = 0
  /\ apply_calls = 0
  /\ true_returns = 0
  /\ sim = NoSim

\* =========================== main() =======================================

\* Mutant of Truncate: the list is never cut.
TruncateM(n, limit) == n

\* main.py:345-346: job_listings[:max_applications] when the list is longer.
Truncate(n, limit) == IF n > limit THEN limit ELSE n

\* main.py:343-347: limit the list to max_applications_per_day.
LimitJobs ==
  /\ pc = "m_limit"
  /\ UNCHANGED sim
  /\ job_listings' = Truncate(job_listings, max_applications)
  /\ pc' = "m_save"
  /\ UNCHANGED << scraped, max_applications, follow_up_days, confirmation, i,
                  successful_applications, fileVars, job, driver, success, ret,
                  current_step, stepinfo, call, runVars >>

\* main.py:349-354: write the job list to data_folder/jobs_<time>.json; an
\* error of open() or json.dump() ends main() (main.py:413-416).
SaveJobs ==
  /\ pc = "m_save"
  /\ UNCHANGED sim
  /\ \E o \in {"ok", "error"} :
       IF o = "ok"
       THEN /\ jobs_file' = "written"
            /\ pc' = "m_confirm"
       ELSE /\ jobs_file' = jobs_file
            /\ pc' = "m_crash"
  /\ UNCHANGED << mainVars, applications, follow_ups, job, driver, success,
                  ret, current_step, stepinfo, call, runVars >>

\* What the user can type at the prompt.
Answers == {"y", "Y", "n", "yes"}

\* Mutant of Lower: the answer is compared as typed.
LowerM(answer) == answer

\* str.lower() on the answers (main.py:360).
Lower(answer) == IF answer = "Y" THEN "y" ELSE answer

\* main.py:356-362: ask for confirmation; anything but y/Y is sys.exit(0).
Confirm ==
  /\ pc = "m_confirm"
  /\ UNCHANGED sim
  /\ \E answer \in Answers :
       /\ confirmation' = answer
       /\ pc' = IF Lower(answer) # "y" THEN "m_exit" ELSE "m_loop"
  /\ UNCHANGED << scraped, job_listings, max_applications, follow_up_days, i,
                  successful_applications, fileVars, job, driver, success, ret,
                  current_step, stepinfo, call, runVars >>

\* main.py:375-385: next job of the loop, or the summary after the last one.
\* The job dict, the resume path and the generated cover letter path are
\* inputs of the call.
LoopNext ==
  /\ pc = "m_loop"
  /\ UNCHANGED sim
  /\ IF i < job_listings
     THEN /\ i' = i + 1
          /\ \E j \in Jobs : job' = j
          /\ pc' = "a_pre"
          /\ driver' = "none"
          /\ success' = FALSE
          /\ ret' = "none"
          /\ current_step' = 0
          /\ stepinfo' = NoStep
          /\ call' = NewCall
          /\ apply_calls' = apply_calls + 1
          /\ UNCHANGED << open_sessions, true_returns >>
     ELSE /\ pc' = "m_done"
          /\ UNCHANGED << i, job, driver, success, ret, current_step, stepinfo,
                          call, runVars >>
  /\ UNCHANGED << scraped, job_listings, max_applications, follow_up_days,
                  confirmation, successful_applications, fileVars >>

\* Mutant of Counted: every application is counted.
CountedM(count, result) == count + 1

\* main.py:387-391: the counter after an apply() call that returned `result`.
Counted(count, result) == IF result = "True" THEN count + 1 ELSE count

\* main.py:387-397: count a True result, wait, loop.
CountResult ==
  /\ pc = "m_count"
  /\ UNCHANGED sim
  /\ successful_applications' = Counted(successful_applications, ret)
  /\ pc' = "m_loop"
  /\ UNCHANGED << scraped, job_listings, max_applications, follow_up_days,
                  confirmation, i, fileVars, job, driver, success, ret,
                  current_step, stepinfo, call, runVars >>

\* ======================= JobApplier.apply ================================

\* Mutant of Preconditions: the URL check (123-125) is missing.
PreconditionsM(j) ==
  IF ~j.resume THEN "no_resume"
  ELSE IF ~j.sponsors THEN "no_h1b"
  ELSE "ok"

\* job_applier.py:112-130: the early returns of apply().
Preconditions(j) ==
  IF ~j.resume THEN "no_resume"
  ELSE IF ~j.url THEN "no_url"
  ELSE IF ~j.sponsors THEN "no_h1b"
  ELSE "ok"

\* Mutant of AfterSource: the record is written whatever the result.
AfterSourceM(s) == "a_record"

\* job_applier.py:155: the success branch is taken only for a true result.
AfterSource(s) == IF s THEN "a_record" ELSE "a_finally"

\* Mutant of FollowUpEnabled: >= for >.
FollowUpEnabledM(days) == days >= 0

\* job_applier.py:161: a follow-up is scheduled for a positive number of days.
FollowUpEnabled(days) == days > 0

\* The lines of the two CSV files: the header, and one line per job (the
\* loop index stands for the job's fields).
Header == [kind |-> "header", job |-> 0]
Line(n) == [kind |-> "line", job |-> n]

\* job_applier.py:867-873 and 895-901: append one line to a CSV file, with
\* the header first when the file is empty.
AppendLine(file, line) ==
  (IF Len(file) = 0 THEN << Header >> ELSE << >>) \o << Line(line) >>

\* Mutant of NavCatches: the navigator catches the Selenium lookup and
\* timeout errors only.
NavCatchesM(e) == e \in {"NoSuchElement", "Timeout"}

\* The handlers an exception meets on its way up:
\* job_applier.py:538 (navigator), 373 (_apply_linkedin), 168 (apply).
NavCatches(e) == e \in Exc
LinkedInCatches(e) == e \in Exc
ApplyCatches(e) == e \in Exc

\* The function an exception raised in `from` propagates out of last.
EscapeLevel(e, from) ==
  IF from = "navigator" /\ NavCatches(e) THEN "none"
  ELSE IF LinkedInCatches(e) THEN (IF from = "navigator" THEN "navigator" ELSE "none")
  ELSE IF ApplyCatches(e) THEN "linkedin"
  ELSE "apply"

\* A source handler returns `result`; c is the call history so far.
Return(result, outcome, c) ==
  /\ success' = result
  /\ call' = [c EXCEPT !.outcome = outcome]
  /\ pc' = AfterSource(result)
  /\ current_step' = 0                  \* the navigator's locals are gone
  /\ stepinfo' = NoStep

\* An exception e is raised in `from`; every handler that catches it makes
\* the result False (job_applier.py:540, 375, 170).
Raise(e, from, c) ==
  /\ success' = FALSE
  /\ call' = [c EXCEPT !.outcome = "Failed", !.escaped = EscapeLevel(e, from)]
  /\ pc' = IF EscapeLevel(e, from) \in {"none", "navigator"}
           THEN AfterSource(FALSE) ELSE "a_finally"
  /\ current_step' = 0
  /\ stepinfo' = NoStep

\* job_applier.py:112-138.
ApplyPre ==
  /\ pc = "a_pre"
  /\ UNCHANGED sim
  /\ IF Preconditions(job) = "ok"
     THEN /\ pc' = "a_setup"
          /\ ret' = ret
     ELSE /\ pc' = "m_count"
          /\ ret' = "False"
  /\ UNCHANGED << mainVars, fileVars, job, driver, success, current_step,
                  stepinfo, call, runVars >>

\* job_applier.py:140 -> 45-86: webdriver.Chrome(options) launches the
\* browser or raises; the call is outside apply()'s try.
SetupChrome ==
  /\ pc = "a_setup"
  /\ UNCHANGED sim
  /\ \E o \in {"ok", "Other"} :
       IF o = "ok"
       THEN /\ driver' = "open"
            /\ call' = [call EXCEPT !.launched = @ + 1]
            /\ open_sessions' = open_sessions + 1
            /\ pc' = "a_setup2"
            /\ ret' = ret
       ELSE /\ ret' = "raised"
            /\ call' = [call EXCEPT !.escaped = "apply"]
            /\ pc' = "m_crash"
            /\ UNCHANGED << driver, open_sessions >>
  /\ UNCHANGED << mainVars, fileVars, job, success, current_step, stepinfo,
                  apply_calls, true_returns >>

\* job_applier.py:88-98: execute_cdp_cmd and set_window_size on the launched
\* browser; an exception leaves _setup_driver and apply() with the browser
\* running.
SetupCdp ==
  /\ pc = "a_setup2"
  /\ UNCHANGED sim
  /\ \E o \in {"ok", "Other"} :
       IF o = "ok"
       THEN /\ pc' = "a_dispatch"
            /\ UNCHANGED << ret, call >>
       ELSE /\ ret' = "raised"
            /\ call' = [call EXCEPT !.escaped = "apply"]
            /\ pc' = "m_crash"
  /\ UNCHANGED << mainVars, fileVars, job, driver, success, current_step,
                  stepinfo, runVars >>

\* job_applier.py:143-153: dispatch on the job source.  _apply_indeed and
\* _apply_ziprecruiter (820-852) return True without touching the page.
Dispatch ==
  /\ pc = "a_dispatch"
  /\ UNCHANGED sim
  /\ IF job.source = "LinkedIn"
     THEN /\ pc' = "l_login"
          /\ UNCHANGED << success, call, current_step, stepinfo >>
     ELSE IF job.source \in {"Indeed", "ZipRecruiter"}
     THEN Return(TRUE, "none", call)
     ELSE /\ pc' = "a_finally"             \* return False, through finally
          /\ UNCHANGED << success, call, current_step, stepinfo >>
  /\ UNCHANGED << mainVars, fileVars, job, driver, ret, runVars >>

\* job_applier.py:157 -> 854-876: _record_application; an I/O error is logged
\* and swallowed (875-876) and the line is not written.
RecordApplication ==
  /\ pc = "a_record"
  /\ UNCHANGED sim
  /\ \E o \in {"ok", "fail"} :
       /\ applications' =
            IF o = "ok" THEN applications \o AppendLine(applications, i)
            ELSE applications
       /\ call' = [call EXCEPT !.recTries = @ + 1, !.recOk = (o = "ok")]
  /\ pc' = IF FollowUpEnabled(follow_up_days) THEN "a_followup" ELSE "a_finally"
  /\ UNCHANGED << mainVars, follow_ups, jobs_file, job, driver, success, ret,
                  current_step, stepinfo, runVars >>

\* job_applier.py:160-166 -> 878-904: _schedule_follow_up, same error
\* handling; _send_direct_email (906-915) does nothing.
ScheduleFollowUp ==
  /\ pc = "a_followup"
  /\ UNCHANGED sim
  /\ \E o \in {"ok", "fail"} :
       /\ follow_ups' =
            IF o = "ok" THEN follow_ups \o AppendLine(follow_ups, i)
            ELSE follow_ups
       /\ call' = [call EXCEPT !.fuTries = @ + 1, !.fuOk = (o = "ok"),
                               !.fuAfterRec = @ /\ call.recTries > 0]
  /\ pc' = "a_finally"
  /\ UNCHANGED << mainVars, applications, jobs_file, job, driver, success,
                  ret, current_step, stepinfo, runVars >>

\* job_applier.py:172-177: the finally block (random_delay, then
\* driver.quit()) and the return.  An exception no handler caught is
\* re-raised after the finally block.
Finally ==
  /\ pc = "a_finally"
  /\ UNCHANGED sim
  /\ driver' = "closed"
  /\ call' = [call EXCEPT !.quits = @ + 1, !.delayed = TRUE]
  /\ open_sessions' = open_sessions - 1
  /\ IF call.escaped = "apply"
     THEN /\ ret' = "raised"
          /\ pc' = "m_crash"
          /\ UNCHANGED true_returns
     ELSE /\ ret' = IF success THEN "True" ELSE "False"
          /\ pc' = "m_count"
          /\ true_returns' = IF success THEN true_returns + 1 ELSE true_returns
  /\ UNCHANGED << mainVars, fileVars, job, success, current_step, stepinfo,
                  apply_calls >>

\* ======================= _apply_linkedin =================================

\* job_applier.py:306 -> 186-257: _linkedin_login re-raises every error, which
\* the handler at 373 turns into False.
LinkedInLogin ==
  /\ pc = "l_login"
  /\ UNCHANGED sim
  /\ \E o \in {"ok"} \cup Exc :
       IF o = "ok"
       THEN /\ pc' = "l_open"
            /\ call' = [call EXCEPT !.login = "ok"]
            /\ UNCHANGED << success, current_step, stepinfo >>
       ELSE Raise(o, "linkedin", [call EXCEPT !.login = "failed"])
  /\ UNCHANGED << mainVars, fileVars, job, driver, ret, runVars >>

\* Mutant of AfterAppliedCheck: the 'Applied' button is ignored.
AfterAppliedCheckM(found) == "l_easy"

\* job_applier.py:316-322: an 'Applied' button ends the run at once.
AfterAppliedCheck(found) == IF found THEN "return" ELSE "l_easy"

\* job_applier.py:308-322: open the job page, read it, look for the
\* 'Applied' button.
OpenJobPage ==
  /\ pc = "l_open"
  /\ UNCHANGED sim
  /\ \E o \in {"applied", "not_applied"} \cup PageExc :
       CASE o = "applied" ->
              LET c == [call EXCEPT !.appliedSeen = TRUE] IN
              IF AfterAppliedCheck(TRUE) = "return"
              THEN Return(TRUE, "AlreadyApplied", c)
              ELSE /\ pc' = AfterAppliedCheck(TRUE)
                   /\ call' = c
                   /\ UNCHANGED << success, current_step, stepinfo >>
         [] o = "not_applied" ->
              /\ pc' = AfterAppliedCheck(FALSE)
              /\ UNCHANGED << success, call, current_step, stepinfo >>
         [] OTHER -> Raise(o, "linkedin", call)
  /\ UNCHANGED << mainVars, fileVars, job, driver, ret, runVars >>

\* Mutant of EnterNavigator: the step counter starts at 0.
EnterNavigatorM(c) ==
  /\ pc' = "n_loop"
  /\ current_step' = 0
  /\ stepinfo' = NoStep
  /\ call' = c
  /\ success' = success

\* The navigator is entered: job_applier.py:390-393.
EnterNavigator(c) ==
  /\ pc' = "n_loop"
  /\ current_step' = 1
  /\ stepinfo' = NoStep
  /\ call' = c
  /\ success' = success

\* job_applier.py:324-349: the Easy Apply button.  `clicked` tells whether
\* the click was made before the exception, if any, was raised.
EasyApply ==
  /\ pc = "l_easy"
  /\ UNCHANGED sim
  /\ \E o \in {"ok"} \cup Exc, clicked \in BOOLEAN :
       LET c == [call EXCEPT !.applyClicked = @ \/ clicked \/ o = "ok"] IN
       CASE o = "ok" -> EnterNavigator(c)
         [] o \in {"NoSuchElement", "Timeout"} ->
              /\ pc' = "l_alt"
              /\ call' = c
              /\ UNCHANGED << success, current_step, stepinfo >>
         [] OTHER -> Raise(o, "linkedin", c)
  /\ UNCHANGED << mainVars, fileVars, job, driver, ret, runVars >>

\* job_applier.py:349-371: the alternative Apply button.
AlternativeApply ==
  /\ pc = "l_alt"
  /\ UNCHANGED sim
  /\ \E o \in {"ok"} \cup Exc, clicked \in BOOLEAN :
       LET c == [call EXCEPT !.applyClicked = @ \/ clicked \/ o = "ok"] IN
       CASE o = "ok" -> EnterNavigator(c)
         [] o \in {"NoSuchElement", "Timeout"} ->
              Return(FALSE, "NoApplyButton", c)
         [] OTHER -> Raise(o, "linkedin", c)
  /\ UNCHANGED << mainVars, fileVars, job, driver, ret, runVars >>

\* =============== _handle_linkedin_application_form =======================

\* job_applier.py:395: the loop condition.
LoopCondition(step) == step <= max_steps

\* Mutant of NextStep: the counter is not advanced.
NextStepM(step) == step

\* job_applier.py:453, 472, 522, 529, 532: the step counter after a step.
NextStep(step) == step + 1

\* job_applier.py:395-399 and 534-536: loop head.  Either a new iteration
\* begins by reading the page, or the step budget is spent.
StepBegin ==
  /\ pc = "n_loop"
  /\ UNCHANGED sim
  /\ IF LoopCondition(current_step)
     THEN \E o \in {"ok"} \cup PageExc :
            LET c == [call EXCEPT !.iters = @ + 1] IN
            IF o = "ok"
            THEN /\ pc' = "n_resume"
                 /\ stepinfo' = NoStep
                 /\ call' = c
                 /\ UNCHANGED << success, current_step >>
            ELSE Raise(o, "navigator", [c EXCEPT !.cause = "page"])
     ELSE Return(FALSE, "Abandoned", call)
  /\ UNCHANGED << mainVars, fileVars, job, driver, ret, runVars >>

\* An upload block: find the file input ("absent" is find_element raising
\* NoSuchElementException), then send_keys the path (job_applier.py:402-415,
\* 418-432).  Only NoSuchElementException is caught locally.
Upload(nextpc) ==
  \E o \in {"absent", "ok"} \cup Exc :
    LET c == [call EXCEPT !.touched = @ \/ o # "absent"] IN
    IF o \in {"absent", "ok", "NoSuchElement"}
    THEN /\ pc' = nextpc
         /\ call' = c
         /\ stepinfo' = [stepinfo EXCEPT
                           !.did = IF o = "absent" THEN @ ELSE "raw"]
         /\ UNCHANGED << success, current_step >>
    ELSE Raise(o, "navigator", [c EXCEPT !.cause = "field"])

\* job_applier.py:401-415.
UploadResume ==
  /\ pc = "n_resume"
  /\ UNCHANGED sim
  /\ Upload("n_cover")
  /\ UNCHANGED << mainVars, fileVars, job, driver, ret, runVars >>

\* job_applier.py:417-432.
UploadCoverLetter ==
  /\ pc = "n_cover"
  /\ UNCHANGED sim
  /\ IF job.cover
     THEN Upload("n_contact")
     ELSE /\ pc' = "n_contact"
          /\ UNCHANGED << success, call, current_step, stepinfo >>
  /\ UNCHANGED << mainVars, fileVars, job, driver, ret, runVars >>

\* job_applier.py:554-585: the contact fields the filler looks up by id.
ContactFields == {"first_name", "last_name", "email", "phone"}

\* job_applier.py:590-608, 625-626: the fields the loop over the located
\* contact fields can have attempted when the filler returns.  The loop has
\* no handler of its own: an exception of human_like_typing, or the
\* IndexError of ''.split()[0] for an empty applicant name (595, 599), leaves
\* it for the handler of the whole function, and the fields after it in the
\* shuffled order are not attempted.
ContactAttempts(located) ==
  { a \in SUBSET located :
      \/ a = located
      \/ a # {}
      \/ located \cap {"first_name", "last_name"} # {} }

\* job_applier.py:435 -> 550-626: _fill_linkedin_contact_info catches every
\* exception itself.
FillContactInfo ==
  /\ pc = "n_contact"
  /\ UNCHANGED sim
  /\ call' = [call EXCEPT !.touched = TRUE]
  /\ pc' = "n_questions"
  /\ \E located \in SUBSET ContactFields :
       \E attempted \in ContactAttempts(located) :
         stepinfo' = [stepinfo EXCEPT !.did = "simulator",
                                      !.skipped = attempted # located]
  /\ UNCHANGED << mainVars, fileVars, job, driver, success, ret, current_step,
                  runVars >>

\* job_applier.py:438-441 -> 637-818: _fill_linkedin_additional_questions
\* catches every exception itself.
FillAdditionalQuestions ==
  /\ pc = "n_questions"
  /\ UNCHANGED sim
  /\ call' = [call EXCEPT !.touched = TRUE]
  /\ pc' = "n_next"
  /\ UNCHANGED << mainVars, fileVars, job, driver, success, ret, current_step,
                  stepinfo, runVars >>

\* human_behavior.py:83-119: human_like_click returns after one click, or
\* raises what the direct click element.click() of its fallback raised.
ClickOutcomes == {"ok"} \cup Exc

\* job_applier.py:443-456: the Next button.  A NoSuchElementException of
\* the click is handled like a missing button.
ClickNext ==
  /\ pc = "n_next"
  /\ UNCHANGED sim
  /\ \E o \in {"absent"} \cup ClickOutcomes :
       LET si == [stepinfo EXCEPT !.present = IF o = "absent" THEN @
                                              ELSE @ \cup {"Next"}] IN
       CASE o = "absent" \/ o = "NoSuchElement" ->
              /\ pc' = "n_review"
              /\ stepinfo' = si
              /\ UNCHANGED << success, call, current_step >>
         [] o = "ok" ->
              /\ pc' = "n_loop"
              /\ stepinfo' = [si EXCEPT !.clicked = @ \cup {"Next"}]
              /\ current_step' = NextStep(current_step)
              /\ call' = [call EXCEPT !.nextRun = IF @ >= 0 THEN @ + 1 ELSE @,
                                      !.touched = TRUE]
              /\ UNCHANGED success
         [] OTHER -> Raise(o, "navigator", [call EXCEPT !.cause = "click"])
  /\ UNCHANGED << mainVars, fileVars, job, driver, ret, runVars >>

\* job_applier.py:458-475: the Review button; after the click the review
\* page is read (470), which can raise too.
ClickReview ==
  /\ pc = "n_review"
  /\ UNCHANGED sim
  /\ \E o \in {"absent"} \cup ClickOutcomes, clicked \in BOOLEAN :
       LET si == [stepinfo EXCEPT
                    !.present = IF o = "absent" THEN @ ELSE @ \cup {"Review"},
                    !.clicked = IF o = "ok" \/ (clicked /\ o \in PageExc)
                                THEN @ \cup {"Review"} ELSE @]
           c == [call EXCEPT !.touched =
                    @ \/ o = "ok" \/ (clicked /\ o \in PageExc)] IN
       CASE o = "absent" \/ o = "NoSuchElement" ->
              /\ pc' = "n_submit"
              /\ stepinfo' = si
              /\ UNCHANGED << success, call, current_step >>
         [] o = "ok" ->
              /\ pc' = "n_loop"
              /\ stepinfo' = si
              /\ current_step' = NextStep(current_step)
              /\ call' = [c EXCEPT !.nextRun = -1]
              /\ UNCHANGED success
         [] OTHER -> Raise(o, "navigator",
                           [c EXCEPT !.cause = IF clicked /\ o \in PageExc
                                               THEN "page" ELSE "click"])
  /\ UNCHANGED << mainVars, fileVars, job, driver, ret, runVars >>

\* job_applier.py:477-487, 502-503: the Submit button.
ClickSubmit ==
  /\ pc = "n_submit"
  /\ UNCHANGED sim
  /\ \E o \in {"absent"} \cup ClickOutcomes :
       LET si == [stepinfo EXCEPT !.present = IF o = "absent" THEN @
                                              ELSE @ \cup {"Submit"}] IN
       CASE o = "absent" \/ o = "NoSuchElement" ->
              /\ pc' = "n_fallback"
              /\ stepinfo' = [si EXCEPT !.skipped = FALSE]
              /\ UNCHANGED << success, call, current_step >>
         [] o = "ok" ->
              /\ pc' = "n_wait"
              /\ stepinfo' = [si EXCEPT !.clicked = @ \cup {"Submit"}]
              /\ call' = [call EXCEPT !.submitClicked = TRUE,
                                      !.submitStep = current_step,
                                      !.touched = TRUE]
              /\ UNCHANGED << success, current_step >>
         [] OTHER -> Raise(o, "navigator", [call EXCEPT !.cause = "click"])
  /\ UNCHANGED << mainVars, fileVars, job, driver, ret, runVars >>

\* Mutant of WaitResult: a timed-out wait counts as a failure.
WaitResultM(w) == w = "found"

\* job_applier.py:489-501: what the navigator returns after the wait for the
\* success indicator: True when it appeared and True when the wait timed out.
WaitResult(w) == w \in {"found", "Timeout"}

\* job_applier.py:488-501: the bounded wait for the success indicator
\* (WebDriverWait ignores NoSuchElementException while polling).
WaitConfirmation ==
  /\ pc = "n_wait"
  /\ UNCHANGED sim
  /\ \E w \in {"found", "Timeout", "Other"} :
       LET c == [call EXCEPT !.wait = w] IN
       IF w = "Other"
       THEN Raise(w, "navigator", [c EXCEPT !.cause = "wait"])
       ELSE Return(WaitResult(w),
                   IF w = "found" THEN "Confirmed" ELSE "Unconfirmed", c)
  /\ UNCHANGED << mainVars, fileVars, job, driver, ret, runVars >>

\* One <button> as the fallback search meets it (job_applier.py:509-525):
\*   "skip"     its text matches no word, or reading the text raised
\*   "fail"     its text matches, the click raised (continue)
\*   "logfail"  its text matches, it was clicked, and reading the text for
\*              the log line (518) raised: continue without counting a step
\*   "clicked"  its text matches and it was clicked: count a step and break
Buttons ==
  { b \in [kind : ButtonKinds, res : {"skip", "fail", "logfail", "clicked"}] :
      b.kind = "other" <=> b.res = "skip" }

\* job_applier.py:505-508, 530-532: no Next, Review or Submit was clicked:
\* list the buttons of the page.  When the search raises, a step is counted.
FindButtons ==
  /\ pc = "n_fallback"
  /\ UNCHANGED sim
  /\ \E o \in {"ok", "error"}, n \in 0..MaxButtons :
       IF o = "ok"
       THEN /\ pc' = "n_button"
            /\ stepinfo' = [stepinfo EXCEPT !.left = n]
            /\ current_step' = current_step
       ELSE /\ n = 0
            /\ pc' = "n_loop"
            /\ stepinfo' = stepinfo
            /\ current_step' = NextStep(current_step)
  /\ call' = [call EXCEPT !.nextRun = -1]
  /\ UNCHANGED << mainVars, fileVars, job, driver, success, ret, runVars >>

\* job_applier.py:509-529: one pass of `for button in buttons`, or its else
\* branch when the list is exhausted.  A step is counted after a completed
\* click (522) and in the else branch (529).
TryButton ==
  /\ pc = "n_button"
  /\ UNCHANGED sim
  /\ IF stepinfo.left = 0
     THEN /\ pc' = "n_loop"
          /\ current_step' = NextStep(current_step)
          /\ UNCHANGED << stepinfo, call >>
     ELSE \E b \in Buttons :
            LET hit == b.res \in {"logfail", "clicked"} IN
            /\ stepinfo' = [stepinfo EXCEPT
                              !.left = @ - 1,
                              !.fbClicks = IF hit THEN @ + 1 ELSE @,
                              !.clicked = IF hit THEN @ \cup {"Fallback"} ELSE @]
            /\ call' = [call EXCEPT
                          !.touched = @ \/ hit,
                          !.submitLike = @ \/ (hit /\ b.kind = "submitlike")]
            /\ IF b.res = "clicked"
               THEN /\ pc' = "n_loop"
                    /\ current_step' = NextStep(current_step)
               ELSE /\ pc' = "n_button"
                    /\ current_step' = current_step
  /\ UNCHANGED << mainVars, fileVars, job, driver, success, ret, runVars >>

\* ======================= the specification ===============================

Next ==
  \/ LimitJobs
  \/ SaveJobs
  \/ Confirm
  \/ LoopNext
  \/ CountResult
  \/ ApplyPre
  \/ SetupChrome
  \/ SetupCdp
  \/ Dispatch
  \/ RecordApplication
  \/ ScheduleFollowUp
  \/ Finally
  \/ LinkedInLogin
  \/ OpenJobPage
  \/ EasyApply
  \/ AlternativeApply
  \/ StepBegin
  \/ UploadResume
  \/ UploadCoverLetter
  \/ FillContactInfo
  \/ FillAdditionalQuestions
  \/ ClickNext
  \/ ClickReview
  \/ ClickSubmit
  \/ WaitConfirmation
  \/ FindButtons
  \/ TryButton

Spec == Init /\ [][Next]_vars

\* ============ HumanBehavior (human_behavior.py), run on its own ===========
\* Each function of the simulator is run as a program of its own: the
\* variables of main() and apply() stay at rest, pc is the position inside
\* the function and sim holds its arguments, locals and history.

appVars == << scraped, job_listings, max_applications, follow_up_days,
              confirmation, i, successful_applications, applications,
              follow_ups, jobs_file, job, driver, success, ret, current_step,
              stepinfo, call, open_sessions, apply_calls, true_returns >>

\* No job loop is running.
AtRest ==
  /\ scraped = 0
  /\ job_listings = 0
  /\ max_applications = 0
  /\ follow_up_days = 0
  /\ confirmation = ""
  /\ i = 0
  /\ successful_applications = 0
  /\ applications = << >>
  /\ follow_ups = << >>
  /\ jobs_file = "none"
  /\ job = NoJob
  /\ driver = "open"
  /\ success = FALSE
  /\ ret = "none"
  /\ current_step = 0
  /\ stepinfo = NoStep
  /\ call = NewCall
  /\ open_sessions = 1
  /\ apply_calls = 0
  /\ true_returns = 0

\* ------------------------- human_like_typing -----------------------------

\* The largest code point chr() accepts; beyond it chr() raises ValueError.
MaxCodePoint == 1114111

\* selenium Keys.BACKSPACE is '\ue003'.
BACKSPACE == 57347

\* Characters are code points (ord); 97 and 98 are 'a' and 'b'.
Chars == {97, 98, MaxCodePoint}

\* The texts typed: every string over Chars of length 0..MaxLen.
Texts == UNION { [1..n -> Chars] : n \in 0..MaxLen }

\* What a call on the field element can raise: the two exception classes the
\* handler of human_behavior.py:67 names, and any other exception.
TypeExc == {"NotInteractable", "Stale", "Other"}

\* human_behavior.py:67: except (ElementNotInteractableException,
\* StaleElementReferenceException).
TypeCatches(e) == e \in {"NotInteractable", "Stale"}

TypeInit ==
  /\ AtRest
  /\ pc = "t_click"
  /\ \E t \in Texts, f \in {<< >>, << 98 >>} :
       sim = [fn |-> "type",
              text |-> t,           \* the argument
              field |-> f,          \* the value of the field element
              initial |-> f,        \* its value when the call began
              keys |-> << >>,       \* the keys sent one by one, in order
              k |-> 0,              \* characters of text typed so far
              fallback |-> FALSE,   \* the handler of line 67 was entered
              failures |-> 0,       \* element calls that raised
              result |-> "none",    \* "returned" | "raised"
              exc |-> "none"]       \* the exception that left the function

\* An element call inside the try block (41-65) raised e: the handler of 67
\* takes it, or it leaves the function.
TypeRaise(e) ==
  IF TypeCatches(e)
  THEN /\ pc' = "t_clear"
       /\ sim' = [sim EXCEPT !.fallback = TRUE, !.failures = @ + 1]
  ELSE /\ pc' = "t_end"
       /\ sim' = [sim EXCEPT !.result = "raised", !.exc = e,
                             !.failures = @ + 1]

\* An element call of the handler (70-71) raised e: nothing catches it.
TypeFallbackRaise(e) ==
  /\ pc' = "t_end"
  /\ sim' = [sim EXCEPT !.result = "raised", !.exc = e, !.failures = @ + 1]

\* human_behavior.py:41-42: element.click() to focus the field.
TypeFocus ==
  /\ pc = "t_click"
  /\ \E o \in {"ok"} \cup TypeExc :
       IF o = "ok"
       THEN /\ pc' = "t_char"
            /\ sim' = sim
       ELSE TypeRaise(o)
  /\ UNCHANGED appVars

\* Mutant of WrongChar: the mistyped character is the character itself.
WrongCharM(char, d) == char

\* human_behavior.py:49: chr(ord(char) + random.randint(1, 5)), d the draw.
WrongChar(char, d) == char + d

\* human_behavior.py:45-51: the next character is mistyped:
\* send_keys(chr(ord(char) + randint(1, 5))).
TypeWrongChar ==
  /\ pc = "t_char"
  /\ sim.k < Len(sim.text)
  /\ \E o \in {"ok"} \cup TypeExc, d \in 1..5 :
       LET wrong_char == WrongChar(sim.text[sim.k + 1], d) IN
       IF wrong_char > MaxCodePoint
       THEN TypeRaise("Other")               \* ValueError of chr()
       ELSE IF o = "ok"
       THEN /\ pc' = "t_bksp"
            /\ sim' = [sim EXCEPT !.field = Append(@, wrong_char),
                                  !.keys = Append(@, wrong_char)]
       ELSE TypeRaise(o)
  /\ UNCHANGED appVars

\* human_behavior.py:53-55: send_keys(Keys.BACKSPACE).
TypeBackspace ==
  /\ pc = "t_bksp"
  /\ \E o \in {"ok"} \cup TypeExc :
       IF o = "ok"
       THEN /\ pc' = "t_correct"
            /\ sim' = [sim EXCEPT !.field = SubSeq(@, 1, Len(@) - 1),
                                  !.keys = Append(@, BACKSPACE)]
       ELSE TypeRaise(o)
  /\ UNCHANGED appVars

\* human_behavior.py:57-61: send_keys(char), directly or after a corrected
\* mistake.
TypeChar ==
  /\ pc \in {"t_char", "t_correct"}
  /\ sim.k < Len(sim.text)
  /\ \E o \in {"ok"} \cup TypeExc :
       IF o = "ok"
       THEN /\ pc' = "t_char"
            /\ sim' = [sim EXCEPT !.field = Append(@, sim.text[sim.k + 1]),
                                  !.keys = Append(@, sim.text[sim.k + 1]),
                                  !.k = @ + 1]
       ELSE TypeRaise(o)
  /\ UNCHANGED appVars

\* human_behavior.py:45, 63-65: the text is typed; an optional pause, return.
TypeReturn ==
  /\ pc = "t_char"
  /\ sim.k = Len(sim.text)
  /\ pc' = "t_end"
  /\ sim' = [sim EXCEPT !.result = "returned"]
  /\ UNCHANGED appVars

\* human_behavior.py:68-70: the warning, then element.clear().
TypeFallbackClear ==
  /\ pc = "t_clear"
  /\ \E o \in {"ok"} \cup TypeExc :
       IF o = "ok"
       THEN /\ pc' = "t_set"
            /\ sim' = [sim EXCEPT !.field = << >>]
       ELSE TypeFallbackRaise(o)
  /\ UNCHANGED appVars

\* human_behavior.py:71: element.send_keys(text), then the function returns.
TypeFallbackSet ==
  /\ pc = "t_set"
  /\ \E o \in {"ok"} \cup TypeExc :
       IF o = "ok"
       THEN /\ pc' = "t_end"
            /\ sim' = [sim EXCEPT !.field = @ \o sim.text,
                                  !.result = "returned"]
       ELSE TypeFallbackRaise(o)
  /\ UNCHANGED appVars

NextType ==
  \/ TypeFocus
  \/ TypeWrongChar
  \/ TypeBackspace
  \/ TypeChar
  \/ TypeReturn
  \/ TypeFallbackClear
  \/ TypeFallbackSet

SpecType == TypeInit /\ [][NextType]_vars

\* -------------------------- human_like_click -----------------------------

\* human_behavior.py:102-103: randint(-size//4, size//4); Python's unary
\* minus binds tighter than //, and // rounds down.
OffsetRange(size) == ((0 - size) \div 4)..(size \div 4)

ClickInit ==
  /\ AtRest
  /\ pc = "k_viewport"
  /\ \E m \in BOOLEAN, w \in 1..MaxSize, h \in 1..MaxSize :
       sim = [fn |-> "click",
              move_offset |-> m,       \* the argument
              width |-> w,             \* element.size
              height |-> h,
              offset_x |-> 0,          \* the offset from the centre
              offset_y |-> 0,
              pointerClicks |-> 0,     \* clicks made by actions.perform()
              directClicks |-> 0,      \* clicks made by element.click()
              fallback |-> FALSE,      \* the handler of line 116 was entered
              result |-> "none",       \* "returned" | "raised"
              exc |-> "none"]

\* human_behavior.py:116-117: every exception of the try block is caught, a
\* warning is logged, and the direct click follows.
ClickRaise(c) ==
  /\ pc' = "k_direct"
  /\ sim' = [c EXCEPT !.fallback = TRUE]

\* human_behavior.py:85-97: read the viewport size, queue the move to a
\* random point and the move to the element.
ClickViewport ==
  /\ pc = "k_viewport"
  /\ \E o \in {"ok", "Other"} :
       IF o = "ok"
       THEN /\ pc' = IF sim.move_offset THEN "k_offset" ELSE "k_perform"
            /\ sim' = sim
       ELSE ClickRaise(sim)
  /\ UNCHANGED appVars

\* human_behavior.py:99-104: read element.size, queue the move by a random
\* offset.
ClickOffset ==
  /\ pc = "k_offset"
  /\ \E o \in {"ok", "Stale"} :
       IF o = "ok"
       THEN \E x \in OffsetRange(sim.width), y \in OffsetRange(sim.height) :
              /\ pc' = "k_perform"
              /\ sim' = [sim EXCEPT !.offset_x = x, !.offset_y = y]
       ELSE ClickRaise(sim)
  /\ UNCHANGED appVars

\* human_behavior.py:106-114: queue the pause and the click, perform the
\* chain.  perform() returns after the click, or raises before the click
\* was made (a move out of bounds, a stale element) or after it (the
\* driver timing out while it waits for the page the click loads).
ClickPerform ==
  /\ pc = "k_perform"
  /\ \E o \in {"ok", "raised_before_click", "raised_after_click"} :
       CASE o = "ok" ->
              /\ pc' = "k_end"
              /\ sim' = [sim EXCEPT !.pointerClicks = @ + 1,
                                    !.result = "returned"]
         [] o = "raised_before_click" -> ClickRaise(sim)
         [] OTHER -> ClickRaise([sim EXCEPT !.pointerClicks = @ + 1])
  /\ UNCHANGED appVars

\* human_behavior.py:118-119: element.click() inside the handler; what it
\* raises leaves the function.
ClickDirect ==
  /\ pc = "k_direct"
  /\ \E o \in {"ok", "raised_before_click", "raised_after_click"} :
       /\ pc' = "k_end"
       /\ sim' = [sim EXCEPT
                    !.directClicks = IF o = "raised_before_click" THEN @
                                     ELSE @ + 1,
                    !.result = IF o = "ok" THEN "returned" ELSE "raised",
                    !.exc = IF o = "ok" THEN "none" ELSE "Other"]
  /\ UNCHANGED appVars

NextClick ==
  \/ ClickViewport
  \/ ClickOffset
  \/ ClickPerform
  \/ ClickDirect

SpecClick == ClickInit /\ [][NextClick]_vars

\* ----------------------------- scroll_page --------------------------------

\* human_behavior.py:133: the default amount is randint(100, 800); the two
\* ends of the range are drawn.
DefaultAmounts == {100, 800}

Abs(n) == IF n < 0 THEN 0 - n ELSE n

Min(a, b) == IF a < b THEN a ELSE b

\* Mutant of Signed: the amount is not negated for "up".
SignedM(direction, amount) == amount

\* human_behavior.py:135-137: the amount with the sign of the direction.
Signed(direction, amount) == IF direction = "up" THEN 0 - amount ELSE amount

\* Mutant of SubStep: all that remains is scrolled in one jump.
SubStepM(remaining, r) == remaining

\* human_behavior.py:143-145: the next sub-scroll, r being randint(50, 200).
SubStep(remaining, r) ==
  IF remaining < 0 THEN 0 - Min(Abs(remaining), r) ELSE Min(Abs(remaining), r)

\* The magnitude of a sub-scroll against the range of randint(50, 200).
Kind(step) ==
  IF Abs(step) = 0 THEN "zero"
  ELSE IF Abs(step) < MinStep THEN "small"
  ELSE IF Abs(step) <= MaxStep THEN "in"
  ELSE "big"

\* Sub-scrolls are counted up to this number.
ManySubs == 3

ScrollInit ==
  /\ AtRest
  /\ pc = "s_start"
  /\ \E d \in {"up", "down"}, g \in BOOLEAN, a \in 0..MaxAmount :
       /\ (~g => a = 0)
       /\ sim = [fn |-> "scroll",
                 direction |-> d,       \* the arguments: direction,
                 given |-> g,           \* amount is not None,
                 requested |-> a,       \* amount (when given)
                 amount |-> 0,          \* the local amount, signed
                 remaining |-> 0,
                 sum |-> 0,             \* signed sum of the sub-scrolls issued
                 nsub |-> 0,            \* number of sub-scrolls issued,
                                        \* counted up to ManySubs
                 signOk |-> TRUE,       \* each had the sign of the direction
                 headIn |-> TRUE,       \* each but the latest was in [50, 200]
                 last |-> "none",       \* Kind of the latest sub-scroll
                 result |-> "none"]     \* "returned" | "raised"

\* human_behavior.py:131-140: the default amount, the sign, remaining.
ScrollStart ==
  /\ pc = "s_start"
  /\ \E a \in (IF sim.given THEN {sim.requested} ELSE DefaultAmounts) :
       sim' = [sim EXCEPT !.requested = a,
                          !.amount = Signed(sim.direction, a),
                          !.remaining = Signed(sim.direction, a)]
  /\ pc' = "s_loop"
  /\ UNCHANGED appVars

\* human_behavior.py:141-154: one pass of the loop: a sub-scroll by
\* window.scrollBy(0, step), which can raise, and the pause.
ScrollStep ==
  /\ pc = "s_loop"
  /\ Abs(sim.remaining) > 0
  /\ \/ \E step \in { SubStep(sim.remaining, r) : r \in MinStep..MaxStep } :
          /\ pc' = "s_loop"
          /\ sim' = [sim EXCEPT
                       !.remaining = @ - step,
                       !.sum = @ + step,
                       !.nsub = Min(@ + 1, ManySubs),
                       !.signOk = @ /\ (IF sim.direction = "up"
                                        THEN step < 0 ELSE step > 0),
                       !.headIn = @ /\ sim.last \in {"none", "in"},
                       !.last = Kind(step)]
     \/ /\ pc' = "s_end"
        /\ sim' = [sim EXCEPT !.result = "raised"]
  /\ UNCHANGED appVars

\* human_behavior.py:141, 156-157: nothing remains: the final pause, return.
ScrollReturn ==
  /\ pc = "s_loop"
  /\ Abs(sim.remaining) = 0
  /\ pc' = "s_end"
  /\ sim' = [sim EXCEPT !.result = "returned"]
  /\ UNCHANGED appVars

NextScroll ==
  \/ ScrollStart
  \/ ScrollStep
  \/ ScrollReturn

SpecScroll == ScrollInit /\ [][NextScroll]_vars

\* -------------------------- read_page_behavior ---------------------------
\* Time is counted in ticks of 50 ms, the shortest delay of the module
\* (human_behavior.py:154); the calls into the browser take no time.

Second == 20

\* time.sleep(random.uniform(0.05, 0.2)) after a sub-scroll (154).
SubPause == 1..4

\* random_delay(0.5, 1.5) at the end of scroll_page (157).
ScrollDelay == 10..30

\* random_delay(0.5, 2.0) at the end of a reading cycle (192).
ReadPause == 10..40

\* duration_range, in seconds: the default (160) and the shortest range a
\* caller passes (job_applier.py:192).
DurationRanges == {<< 3, 8 >>, << 2, 4 >>}

\* The ends of randint(100, 300) (184) and of randint(50, 200) (188).
ReadDownAmounts == {100, 300}
ReadUpAmounts == {50, 200}

CeilDiv(a, b) == (a + b - 1) \div b

\* The passes the loop of scroll_page can make for an amount: every
\* sub-scroll is at most MaxStep, every one but the last at least MinStep.
SubScrollCounts(amount) == CeilDiv(amount, MaxStep)..CeilDiv(amount, MinStep)

\* The time a call scroll_page(driver, direction, amount) can take: after
\* each of the n sub-scrolls a pause of SubPause (1 to 4 ticks), and the
\* final delay.
ScrollTicks(amount) ==
  { p + d : p \in UNION { (n * 1)..(n * 4) : n \in SubScrollCounts(amount) },
            d \in ScrollDelay }

\* human_behavior.py:182-189: the time the scroll of one pass can take.
\* Whether the page can be scrolled down (182) or up (186) is what the
\* browser reports: a pass scrolls down, scrolls up, or does not scroll.
CycleScrolls ==
  UNION { IF often /\ canDown
          THEN UNION { ScrollTicks(a) : a \in ReadDownAmounts }
          ELSE IF canUp
          THEN UNION { ScrollTicks(a) : a \in ReadUpAmounts }
          ELSE {0} :
          often \in BOOLEAN, canDown \in BOOLEAN, canUp \in BOOLEAN }

\* human_behavior.py:182-192: the time one pass can take, the pause of 192
\* included.
CycleTicks == { scroll + pause : scroll \in CycleScrolls, pause \in ReadPause }

ReadInit ==
  /\ AtRest
  /\ pc = "r_start"
  /\ \E range \in DurationRanges :
       sim = [fn |-> "read",
              lo |-> range[1],        \* duration_range, in seconds
              hi |-> range[2],
              now |-> 0,              \* time.time(), in ticks since the call
              end_time |-> 0,
              cycles |-> 0,           \* passes of the reading loop, up to
                                      \* ManyCycles
              result |-> "none"]      \* "returned" | "raised"

\* human_behavior.py:168-174: sample the duration (one of the two ends of
\* random.uniform), read the page and the viewport height.
ReadStart ==
  /\ pc = "r_start"
  /\ \/ \E d \in {sim.lo * Second, sim.hi * Second} :
          /\ pc' = "r_loop"
          /\ sim' = [sim EXCEPT !.end_time = sim.now + d]
     \/ /\ pc' = "r_end"
        /\ sim' = [sim EXCEPT !.result = "raised"]
  /\ UNCHANGED appVars

\* human_behavior.py:177-192: one pass of the reading loop: read the scroll
\* position (which can raise), scroll down, up or not at all, then pause.
ReadCycle ==
  /\ pc = "r_loop"
  /\ sim.now < sim.end_time
  /\ \/ \E elapsed \in CycleTicks :
          /\ pc' = "r_loop"
          /\ sim' = [sim EXCEPT !.now = @ + elapsed,
                                !.cycles = Min(@ + 1, ManyCycles)]
     \/ /\ pc' = "r_end"
        /\ sim' = [sim EXCEPT !.result = "raised"]
  /\ UNCHANGED appVars

\* human_behavior.py:177: the deadline has passed: return.
ReadReturn ==
  /\ pc = "r_loop"
  /\ sim.now >= sim.end_time
  /\ pc' = "r_end"
  /\ sim' = [sim EXCEPT !.result = "returned"]
  /\ UNCHANGED appVars

NextRead ==
  \/ ReadStart
  \/ ReadCycle
  \/ ReadReturn

SpecRead == ReadInit /\ [][NextRead]_vars

\* ============ _fill_linkedin_additional_questions, run on its own ========
\* The question filler (job_applier.py:628-818) run as a program of its own
\* on one page: four loops, over the 'Yes' radio buttons, the selects, the
\* text inputs and the textareas, each in a shuffled order.  sim holds the
\* loop now running: the elements it has yet to visit and what was done to
\* the elements visited.

\* The radio buttons of a page with n Yes/No groups.
Radios(n) == [group : 1..n, value : {"Yes", "No"}]

\* Mutant of YesRadios: the selector matches every radio button.
YesRadiosM(n) == Radios(n)

\* job_applier.py:640: find_elements("input[type='radio'][value='Yes']").
YesRadios(n) == { r \in Radios(n) : r.value = "Yes" }

\* human_behavior.py:83-119: what a call of human_like_click has done when it
\* is over: the clicks made on its target, and whether it raised.  One click
\* and a return; a click by the pointer chain whose perform() raised after
\* it, then the direct click (two clicks); no click and the exception of the
\* direct click; a click by the pointer chain and that exception.
ClickEffects ==
  { [clicks |-> 1, raised |-> FALSE], [clicks |-> 2, raised |-> FALSE],
    [clicks |-> 0, raised |-> TRUE], [clicks |-> 1, raised |-> TRUE] }

\* The texts of <option> elements: empty, blank, and one with a word.
OptionTexts == {"", " ", " B "}

\* str.strip() on the option texts.
Strip(text) ==
  CASE text = " " -> ""
    [] text = " B " -> "B"
    [] OTHER -> text

\* What select.find_elements(By.TAG_NAME, "option") can return.
OptionLists == UNION { [1..n -> OptionTexts] : n \in 0..MaxOptions }

\* Mutant of valid_options: the first option is not skipped.
valid_optionsM(options) ==
  { k \in 1..Len(options) : Strip(options[k]) # "" }

\* job_applier.py:686: [opt for opt in options[1:] if opt.text.strip()], as
\* the positions (from 1) of the options kept.
valid_options(options) ==
  { k \in 2..Len(options) : Strip(options[k]) # "" }

\* The branches of the chain for text inputs (job_applier.py:727-751), named
\* by a word they look for in the placeholder and the label, in the order of
\* the if/elif chain.
TextRules == << "years", "salary", "portfolio", "linkedin", "github" >>

\* The branches of the chain for textareas (job_applier.py:781-790).
AreaRules == << "cover letter", "additional information" >>

Range(seq) == { seq[k] : k \in 1..Len(seq) }

\* An if/elif chain: the first branch of `chain` whose condition holds for a
\* field matching the branches in `matched`; "none" when no branch is taken.
RECURSIVE FirstBranch(_, _)
FirstBranch(chain, matched) ==
  IF chain = << >> THEN "none"
  ELSE IF Head(chain) \in matched THEN Head(chain)
  ELSE FirstBranch(Tail(chain), matched)

\* job_applier.py:781-813: the branch that fills a textarea.  The cover
\* letter branch is taken on a match and types only with a cover letter path
\* (782); the branch below it is then not tried.
AreaFilledBy(matched, cover_letter_path) ==
  LET branch == FirstBranch(AreaRules, matched) IN
  IF branch = "cover letter" /\ ~cover_letter_path THEN "none" ELSE branch

\* The loop ghosts when a loop begins.
NoElement == [options |-> << >>, option_to_select |-> 0,
              matched |-> {}, filled |-> "none", raised |-> FALSE]

QuestionsInit ==
  /\ AtRest
  /\ pc = "q_radios"
  /\ \E c \in BOOLEAN :
       sim = [fn |-> "questions",
              cover_letter_path |-> c,   \* the argument is not None
              todo |-> {},               \* elements the loop has yet to visit
              clicks |-> << >>,          \* clicks made on each radio button
              last |-> NoElement,        \* the element visited last
              result |-> "none"]

\* job_applier.py:639-645, 657-658: locate the 'Yes' radio buttons; when the
\* search raises there is nothing to visit.
FindRadioButtons ==
  /\ pc = "q_radios"
  /\ \E o \in {"ok", "error"}, n \in 0..MaxElems :
       /\ o = "error" => n = 0
       /\ sim' = [sim EXCEPT !.todo = YesRadios(n),
                             !.clicks = [r \in Radios(n) |-> 0]]
  /\ pc' = "q_radio"
  /\ UNCHANGED appVars

\* job_applier.py:647-656: the next radio button of the shuffled order is
\* clicked; whatever the click raises is passed over.
ClickRadioButton ==
  /\ pc = "q_radio"
  /\ \E r \in sim.todo, e \in ClickEffects :
       sim' = [sim EXCEPT !.todo = @ \ {r},
                          !.clicks[r] = @ + e.clicks,
                          !.last.raised = e.raised]
  /\ pc' = "q_radio"
  /\ UNCHANGED appVars

\* job_applier.py:660-666, 700-701: locate the selects.
FindSelects ==
  /\ pc = "q_radio"
  /\ sim.todo = {}
  /\ \E o \in {"ok", "error"}, n \in 0..MaxElems :
       /\ o = "error" => n = 0
       /\ sim' = [sim EXCEPT !.todo = 1..n, !.clicks = << >>,
                             !.last = NoElement]
  /\ pc' = "q_select"
  /\ UNCHANGED appVars

\* job_applier.py:668-698: what a pass over one select can leave: either
\* the click on the select or the search for its options raised and the
\* pass ended there, or the options were read and, when there is a valid
\* one, one of them was chosen and clicked.
SelectPasses ==
  { [NoElement EXCEPT !.raised = TRUE] }
  \cup UNION {
    IF valid_options(options) # {}
    THEN { [NoElement EXCEPT !.options = options,
                             !.option_to_select = option_to_select,
                             !.raised = e.raised] :
             option_to_select \in valid_options(options), e \in ClickEffects }
    ELSE { [NoElement EXCEPT !.options = options] } :
    options \in OptionLists }

\* job_applier.py:668-698: the pass over the next select of the shuffled
\* order; every exception is passed over by the bare except of 697.
FillSelect ==
  /\ pc = "q_select"
  /\ \E idx \in sim.todo, pass \in SelectPasses :
       sim' = [sim EXCEPT !.todo = @ \ {idx}, !.last = pass]
  /\ pc' = "q_select"
  /\ UNCHANGED appVars

\* job_applier.py:703-710, 754-755: locate the text inputs.
FindTextInputs ==
  /\ pc = "q_select"
  /\ sim.todo = {}
  /\ \E o \in {"ok", "error"}, n \in 0..MaxElems :
       /\ o = "error" => n = 0
       /\ sim' = [sim EXCEPT !.todo = 1..n, !.last = NoElement]
  /\ pc' = "q_input"
  /\ UNCHANGED appVars

\* job_applier.py:712-753: one text input: read its placeholder and label,
\* and type what the first matching branch of the chain types.  Reading the
\* placeholder can raise before the chain is reached; an exception of the
\* typing is passed over.
FillTextInput ==
  /\ pc = "q_input"
  /\ \E idx \in sim.todo, matched \in SUBSET Range(TextRules),
        o \in {"ok", "unread", "typing_raised"} :
       sim' = [sim EXCEPT
                 !.todo = @ \ {idx},
                 !.last = [NoElement EXCEPT
                             !.matched = matched,
                             !.filled = IF o = "unread" THEN "none"
                                        ELSE FirstBranch(TextRules, matched),
                             !.raised = o # "ok"]]
  /\ pc' = "q_input"
  /\ UNCHANGED appVars

\* job_applier.py:757-764, 814-815: locate the textareas.
FindTextareas ==
  /\ pc = "q_input"
  /\ sim.todo = {}
  /\ \E o \in {"ok", "error"}, n \in 0..MaxElems :
       /\ o = "error" => n = 0
       /\ sim' = [sim EXCEPT !.todo = 1..n, !.last = NoElement]
  /\ pc' = "q_textarea"
  /\ UNCHANGED appVars

\* job_applier.py:766-813: one textarea, like a text input.
FillTextarea ==
  /\ pc = "q_textarea"
  /\ \E idx \in sim.todo, matched \in SUBSET Range(AreaRules),
        o \in {"ok", "unread", "typing_raised"} :
       sim' = [sim EXCEPT
                 !.todo = @ \ {idx},
                 !.last = [NoElement EXCEPT
                             !.matched = matched,
                             !.filled =
                               IF o = "unread" THEN "none"
                               ELSE AreaFilledBy(matched,
                                                 sim.cover_letter_path),
                             !.raised = o # "ok"]]
  /\ pc' = "q_textarea"
  /\ UNCHANGED appVars

\* job_applier.py:814-818: the last loop is over; the function returns.
QuestionsReturn ==
  /\ pc = "q_textarea"
  /\ sim.todo = {}
  /\ pc' = "q_end"
  /\ sim' = [sim EXCEPT !.result = "returned"]
  /\ UNCHANGED appVars

NextQuestions ==
  \/ FindRadioButtons
  \/ ClickRadioButton
  \/ FindSelects
  \/ FillSelect
  \/ FindTextInputs
  \/ FillTextInput
  \/ FindTextareas
  \/ FillTextarea
  \/ QuestionsReturn

SpecQuestions == QuestionsInit /\ [][NextQuestions]_vars

\* ======================= properties ======================================

NavPcs == {"n_loop", "n_resume", "n_cover", "n_contact", "n_questions",
           "n_next", "n_review", "n_submit", "n_wait", "n_fallback", "n_button"}

\* Lines added to a file by the current apply() call, headers not counted.
AddedTo(file, mark) ==
  Cardinality({ k \in (mark + 1)..Len(file) : file[k].kind = "line" })

RecordsAdded == AddedTo(applications, call.appMark)
FollowUpsAdded == AddedTo(follow_ups, call.fuMark)

\* Nothing was written and no write was tried in the current call.
NothingWritten ==
  /\ Len(applications) = call.appMark
  /\ Len(follow_ups) = call.fuMark
  /\ call.recTries = 0
  /\ call.fuTries = 0

Unsupported == job.source \notin {"none", "LinkedIn", "Indeed", "ZipRecruiter"}

NavSuccess == call.outcome \in {"Confirmed", "Unconfirmed", "AlreadyApplied"}

\* C1: in the form navigator the step counter is left unchanged inside an
\* iteration and is exactly one larger when control is back at the loop
\* head; a run leaves the navigator only with a result; no more than
\* max_steps (10) iterations are begun; a run that spent the step budget
\* ran exactly max_steps iterations and returns False; and a run in which
\* Submit was never clicked (in particular one whose session never exposes
\* Submit) returns False.
C1_StepProgress ==
  [][ /\ (pc \in NavPcs \ {"n_loop"} /\ pc' = "n_loop")
           => current_step' = current_step + 1
      /\ (pc \in NavPcs /\ pc' \in NavPcs \ {"n_loop"})
           => current_step' = current_step
      /\ (pc \in NavPcs /\ pc' \notin NavPcs)
           => /\ call'.outcome \in {"Confirmed", "Unconfirmed", "Abandoned", "Failed"}
              /\ pc' \in {"a_record", "a_finally"}
              /\ (~call'.submitClicked => ~success')
      /\ call'.iters <= max_steps
      /\ (call'.outcome = "Abandoned"
           => ~success' /\ call'.iters = max_steps /\ ~call'.submitClicked)
    ]_vars

C1_Witness ==
  /\ call.outcome = "Abandoned"
  /\ call.iters = max_steps
  /\ ~call.submitClicked
  /\ ret = "False"

C3_AlreadyApplied ==
  call.appliedSeen =>
    /\ call.outcome = "AlreadyApplied"
    /\ success
    /\ ret \in {"none", "True"}
    /\ ~call.touched
    /\ ~call.applyClicked
    /\ call.iters = 0
    /\ pc \notin NavPcs \cup {"l_easy", "l_alt"}

C3_Witness ==
  /\ call.appliedSeen
  /\ call.outcome = "AlreadyApplied"
  /\ ret = "True"

\* C4: when every step before the one whose Submit is clicked was left by a
\* click on Next (k of them), the step counter at the Submit click is k + 1
\* with k <= 9, and if the success indicator is then found the outcome is
\* Confirmed.
C4_StepCount ==
  (call.submitClicked /\ call.nextRun >= 0) =>
    /\ call.submitStep = call.nextRun + 1
    /\ call.nextRun <= max_steps - 1
    /\ (call.wait = "found" => call.outcome = "Confirmed" /\ success)

C4_Witness ==
  /\ call.outcome = "Confirmed"
  /\ call.nextRun = max_steps - 1
  /\ call.submitStep = max_steps
  /\ ret = "True"

\* C5: no exception propagates out of the form navigator: an exception that
\* reaches its top-level handler ends the run as Failed with result False.
C5_NavigatorCatchesAll ==
  /\ call.escaped # "navigator"
  /\ (call.outcome = "Failed" => ~success /\ ret \in {"none", "False"})

C5_Witness ==
  /\ call.outcome = "Failed"
  /\ call.iters > 0
  /\ call.escaped = "none"
  /\ ret = "False"

\* C6: apply() never propagates an exception, and when it is over a session
\* it opened has been released.
C6_ApplyNeverRaises ==
  /\ ret # "raised"
  /\ (ret # "none" /\ call.launched > 0 => driver = "closed")

\* C7: when apply() is over, every session it opened has been quit exactly
\* once, after the final random delay; no session is open between two
\* calls and never more than one is open.
C7_SessionClosedOnce ==
  /\ (ret # "none" => call.quits = call.launched)
  /\ call.quits <= 1
  /\ (call.quits > 0 => call.delayed)
  /\ open_sessions <= 1
  /\ (pc \in {"m_count", "m_loop", "m_done", "m_crash"} => open_sessions = 0)

\* C8 as stated: an unmet precondition (missing resume, missing URL, a source
\* that cannot be handled or authenticated) makes apply() return False
\* without launching a session and without writing a record.
C8_Original ==
  (/\ ret \in {"True", "False"}
   /\ (~job.resume \/ ~job.url \/ Unsupported \/ call.login = "failed"))
    => ret = "False" /\ call.launched = 0 /\ NothingWritten

\* C8 amended: a missing resume file or a missing URL makes apply() return
\* False with no session launched and nothing written; an unsupported
\* source or a failed login makes it return False with nothing written,
\* but (the resume, the URL and the H1B flag being there) after a session
\* was launched, which is closed again.
C8_EarlyReturn ==
  /\ (job # NoJob /\ pc # "a_pre" /\ (~job.resume \/ ~job.url))
       => /\ ret = "False"
          /\ call.launched = 0
          /\ driver = "none"
          /\ NothingWritten
  /\ (/\ ret \in {"True", "False"}
      /\ job.resume /\ job.url /\ job.sponsors
      /\ (Unsupported \/ call.login = "failed"))
       => /\ ret = "False"
          /\ NothingWritten
          /\ call.launched = 1
          /\ driver = "closed"

C8_Witness ==
  /\ pc = "m_count"
  /\ job.resume
  /\ ~job.url
  /\ ret = "False"
  /\ call.launched = 0

\* C9: when apply() has returned False, the call wrote no application record
\* and no follow-up entry (and tried neither).
C9_NoRecordOnFailure ==
  ret = "False" => NothingWritten

C9_Witness ==
  /\ ret = "False"
  /\ call.outcome = "Abandoned"
  /\ NothingWritten

C11_SuccessOnlyAfterSubmit ==
  (ret = "True" \/ success \/ call.recTries > 0)
    => (call.submitClicked \/ call.appliedSeen)

\* C17: the caller's counter of successful applications equals the number
\* of apply() calls that have returned True (the one just returned being
\* counted in the next statement); it changes only directly after a True
\* result, by one, and a False result leaves it as it is.
C17_CounterTracksTrue ==
  [][ /\ successful_applications' =
           true_returns' - (IF pc' = "m_count" /\ ret' = "True" THEN 1 ELSE 0)
      /\ (successful_applications' # successful_applications
           => /\ pc = "m_count"
              /\ ret = "True"
              /\ successful_applications' = successful_applications + 1)
      /\ (pc = "m_count" /\ ret # "True"
           => successful_applications' = successful_applications)
    ]_vars

C17_Witness ==
  /\ pc = "m_done"
  /\ apply_calls = 2
  /\ true_returns = 1
  /\ successful_applications = 1

\* C18: apply() is invoked for at most max_applications_per_day jobs (and
\* for no more jobs than were scraped), whatever the limit, 0 included.
C18_DailyLimit ==
  /\ apply_calls <= max_applications
  /\ apply_calls <= scraped
  /\ i = apply_calls

C18_Witness ==
  /\ pc = "m_done"
  /\ scraped > max_applications
  /\ max_applications >= 1
  /\ apply_calls = max_applications

\* C19 as stated: apply() is called and a session is opened only after the
\* answer 'y' to the prompt, given after the job list was saved; every
\* other answer ends the program with zero applications.
C19_Original ==
  /\ (apply_calls > 0 \/ open_sessions > 0)
       => confirmation = "y" /\ jobs_file = "written"
  /\ (confirmation \notin {"", "y"}) => pc = "m_exit" /\ apply_calls = 0

\* C19 amended: apply() is called and a session is opened only after the
\* answer 'y' or 'Y' (the answer is lower-cased before it is compared),
\* given after the job list was saved; both answers start the job loop;
\* every other answer ends the program with zero applications.
C19_ConfirmedFirst ==
  /\ (apply_calls > 0 \/ open_sessions > 0 \/ driver # "none")
       => confirmation \in {"y", "Y"} /\ jobs_file = "written"
  /\ (confirmation # "" => jobs_file = "written")
  /\ (confirmation \in {"y", "Y"} => pc # "m_exit")
  /\ (confirmation \notin {"", "y", "Y"})
       => /\ pc = "m_exit"
          /\ apply_calls = 0
          /\ open_sessions = 0
          /\ successful_applications = 0

C19_Witness ==
  /\ confirmation = "Y"
  /\ apply_calls > 0
  /\ driver = "open"

\* C20: in one step at most one primary action control is clicked, and a
\* control is clicked only when no control of higher priority (Next, then
\* Review, then Submit, then the buttons of the fallback search) was found
\* in that step.
C20_OnePrimaryClick ==
  /\ Cardinality(stepinfo.clicked \ {"Fallback"}) + stepinfo.fbClicks <= 1
  /\ ("Review" \in stepinfo.clicked => "Next" \notin stepinfo.present)
  /\ ("Submit" \in stepinfo.clicked
       => stepinfo.present \cap {"Next", "Review"} = {})
  /\ (stepinfo.fbClicks > 0
       => stepinfo.present \cap {"Next", "Review", "Submit"} = {})

\* C12: human_like_typing never lets a 'not interactable' or 'stale'
\* exception of the field leave the function, whether it was raised by the
\* focus click, by a key press or inside the fallback: a call in which the
\* field raised nothing else returns, with the text set by the fallback.
C12_TypingNeverThrows ==
  /\ sim.exc \notin {"NotInteractable", "Stale"}
  /\ (sim.result = "raised" => sim.exc = "Other")
  /\ (sim.result = "returned" /\ sim.fallback => sim.field = sim.text)

\* C13: a call of human_like_click that is over has clicked the target
\* exactly once: by the pointer path, or, when that path failed, by one
\* direct click; the target is never clicked by both paths.
C13_ExactlyOneClick ==
  /\ sim.pointerClicks + sim.directClicks <= 1
  /\ (sim.result # "none" => sim.pointerClicks + sim.directClicks = 1)
  /\ (sim.result # "none" /\ sim.fallback => sim.directClicks = 1)

\* C14: for every amount >= 0 and direction up or down, scroll_page
\* terminates: each pass of its loop leaves strictly less to scroll, and
\* with nothing left it returns; every sub-scroll it issues has the sign of
\* the direction; what was scrolled and what remains always add up to the
\* signed amount; and when it returns the signed sum of the sub-scrolls is
\* +amount for "down" and -amount for "up".
C14_ScrollTotal ==
  [][ /\ sim'.signOk
      /\ (pc' # "s_start" => sim'.sum + sim'.remaining = sim'.amount)
      /\ (pc = "s_loop" /\ pc' = "s_loop"
           => Abs(sim'.remaining) < Abs(sim.remaining))
      /\ (pc = "s_loop" /\ sim.remaining = 0 => sim'.result = "returned")
      /\ (sim'.result = "returned"
           => /\ sim'.remaining = 0
              /\ sim'.sum = (IF sim'.direction = "up" THEN 0 - sim'.requested
                             ELSE sim'.requested))
    ]_vars

C14_Witness ==
  /\ sim.result = "returned"
  /\ sim.direction = "up"
  /\ sim.nsub = ManySubs
  /\ sim.sum = 0 - sim.requested

\* C15 as stated: every sub-scroll has a magnitude in [50, 200].
C15_Original ==
  sim.headIn /\ sim.last \in {"none", "in"}

\* C15 amended: every sub-scroll has a magnitude in [1, 200]; every
\* sub-scroll except the final one of a call has a magnitude in [50, 200];
\* the final one is what remains of the amount and can be below 50.
C15_SubScrollRange ==
  /\ sim.headIn
  /\ sim.last \in {"none", "small", "in"}
  /\ (sim.last = "small" => sim.remaining = 0)

C15_Witness ==
  /\ sim.result = "returned"
  /\ sim.nsub >= 2
  /\ sim.headIn
  /\ sim.last = "small"

\* C16: read_page_behavior(duration_range) returns no later than
\* duration_range[1] seconds, plus an epsilon of one second, after the call,
\* whatever is drawn: a pass of the loop that begins before the deadline
\* does not run past that bound.
C16_ReadingBounded ==
  /\ (pc = "r_loop" => sim.now <= sim.hi * Second + Second)
  /\ (sim.result = "returned" => sim.now <= sim.hi * Second + Second)

\* C21: when the Submit control has been clicked in an iteration of the
\* stepping loop, every contact field located in that iteration was attempted
\* before the click (the uploads and both fillers run before the control
\* search of the iteration), and the step counter never goes back.
C21_FilledBeforeSubmit ==
  "Submit" \in stepinfo.clicked => ~stepinfo.skipped

\* C22: a field that fails while it is filled does not end the run: no run
\* ends on an exception raised by a field, and the fields located after the
\* failing one are still attempted.
C22_FieldFailureSwallowed ==
  /\ call.cause # "field"
  /\ ~stepinfo.skipped

\* C23: a failing click on a control is swallowed: no run ends as Failed on
\* the exception of a click on Next, Review, Submit or a fallback button.
C23_ClickFailureSwallowed ==
  call.outcome = "Failed" => call.cause # "click"

\* C24: a run that ends as Abandoned has clicked no submit-like control:
\* neither Submit nor a fallback button whose text has "submit" or "apply".
C24_AbandonedNeverSubmitted ==
  call.outcome = "Abandoned" => ~call.submitClicked /\ ~call.submitLike

\* C25: the navigator acts on a field only through the simulator; it never
\* issues a raw send_keys on a page element, the file inputs included.
C25_NoRawAction ==
  stepinfo.did # "raw"

\* The keys are a typing of a prefix of text in which every character is
\* sent either directly or as: one key that is neither the character nor
\* BACKSPACE, then BACKSPACE, then the character.
RECURSIVE InOrder(_, _)
InOrder(keys, text) ==
  IF keys = << >> THEN TRUE
  ELSE IF text = << >> THEN FALSE
  ELSE IF Head(keys) = Head(text) THEN InOrder(Tail(keys), Tail(text))
  ELSE /\ Head(keys) # BACKSPACE
       /\ (Len(keys) >= 2 => keys[2] = BACKSPACE)
       /\ (Len(keys) >= 3
            => /\ keys[3] = Head(text)
               /\ InOrder(SubSeq(keys, 4, Len(keys)), Tail(text)))

\* What a sequence of keys leaves in an empty field.
RECURSIVE Echo(_)
Echo(keys) ==
  IF keys = << >> THEN << >>
  ELSE LET before == Echo(SubSeq(keys, 1, Len(keys) - 1))
           key == keys[Len(keys)] IN
       IF key = BACKSPACE THEN SubSeq(before, 1, Len(before) - 1)
       ELSE Append(before, key)

\* C26: while human_like_typing has not entered its fallback, the keys it has
\* sent follow the order of the text, each character sent directly or after
\* one different wrong character and one BACKSPACE; when the call returns,
\* the keys amount to the text and the field holds its former value followed
\* by the text.
C26_KeyOrder ==
  (sim.fn = "type" /\ ~sim.fallback)
    => /\ InOrder(sim.keys, sim.text)
       /\ (sim.result = "returned"
            => /\ Echo(sim.keys) = sim.text
               /\ sim.field = sim.initial \o sim.text)

C26_Witness ==
  /\ sim.result = "returned"
  /\ ~sim.fallback
  /\ Len(sim.text) = 2
  /\ Len(sim.keys) = 4
  /\ sim.keys[2] = BACKSPACE
  /\ sim.initial # << >>

\* The pointer is moved to the centre of the target, the point
\* floor(size / 2) of a side of `size` pixels numbered from 0, and from there
\* by the offset: the point reached is one of the pixels 0..size-1.
InsideTarget(size, offset) ==
  LET point == (size \div 2) + offset IN
  0 <= point /\ point < size

\* C30: the offset human_like_click draws is within 25% of half the width
\* horizontally and of half the height vertically (8 * |offset| <= size),
\* and the point it clicks is inside the bounding box of the target.
C30_OffsetInsideTarget ==
  sim.fn = "click"
    => /\ 8 * Abs(sim.offset_x) <= sim.width
       /\ 8 * Abs(sim.offset_y) <= sim.height
       /\ InsideTarget(sim.width, sim.offset_x)
       /\ InsideTarget(sim.height, sim.offset_y)

\* The documented priority of the classifier rules, 1 the highest: the
\* identity fields, then years of experience, then salary, then additional
\* information, then the cover letter body.
DocumentedRank(rule) ==
  CASE rule \in {"linkedin", "github", "portfolio"} -> 1
    [] rule = "years" -> 2
    [] rule = "salary" -> 3
    [] rule = "additional information" -> 4
    [] rule = "cover letter" -> 5

\* C27: a text input or textarea whose placeholder and label were read is
\* filled by exactly one rule, a rule it matches that has the highest
\* documented priority among the rules it matches; a field that matches no
\* rule is not filled.
C27_HighestPriorityRule ==
  (sim.fn = "questions" /\ sim.last.filled = "none" => sim.last.raised
                                                       \/ sim.last.matched = {})
  /\ (sim.fn = "questions" /\ sim.last.filled # "none"
       => /\ sim.last.filled \in sim.last.matched
          /\ \A m \in sim.last.matched :
               DocumentedRank(sim.last.filled) <= DocumentedRank(m))

\* C28: in the loop over the radio buttons no 'No' button is clicked, no
\* 'Yes' button is clicked more than once, and every 'Yes' button the loop
\* has visited was clicked.
C28_YesOnce ==
  (sim.fn = "questions" /\ pc = "q_radio")
    => \A r \in DOMAIN sim.clicks :
         /\ r.value = "No" => sim.clicks[r] = 0
         /\ sim.clicks[r] <= 1
         /\ (r.value = "Yes" /\ r \notin sim.todo => sim.clicks[r] >= 1)

\* C29: the option chosen in a select is never its first option and never an
\* option whose text is blank; when no later option has a non-blank text, no
\* option is chosen.
C29_ValidOptionOnly ==
  sim.fn = "questions"
    => LET options == sim.last.options
           choice == sim.last.option_to_select IN
       /\ choice # 0 => /\ choice \in 2..Len(options)
                        /\ Strip(options[choice]) # ""
       /\ (\A k \in 2..Len(options) : Strip(options[k]) = "") => choice = 0
       /\ sim.result # "raised"

C29_Witness ==
  /\ sim.fn = "questions"
  /\ pc = "q_select"
  /\ Len(sim.last.options) = 3
  /\ sim.last.options[1] = " B "
  /\ sim.last.options[2] = " "
  /\ sim.last.option_to_select = 3

====
